---- MODULE Spec2Model ----
(***************************************************************************)
(* Model of the document chunking and Arabic-cleaning pipeline of          *)
(* arabic-cleaner-web:                                                     *)
(*   src/src/app/api/process-documents/route.ts   (FileAnalyzer,           *)
(*       TextChunker, ArabicTextRemover, the extractors, POST)             *)
(*   src/src/lib/python-service-client.ts         (PythonServiceClient)    *)
(*                                                                         *)
(* A string is a sequence of code points (integers).  A thrown exception   *)
(* is a record [ok |-> FALSE, error |-> ...]; a returned value is          *)
(* [ok |-> TRUE, value |-> ...].                                           *)
(***************************************************************************)
EXTENDS Integers, Sequences, FiniteSets, TLC

VARIABLES
    \* ---- the pure functions of route.ts, called once on drawn inputs ----
    text,                       \* the string argument
    chunkSizeWords,             \* the chunk size argument
    fileSize,                   \* the byte size argument
    nWords,                     \* how many words `text` was built from
    chunkList,                  \* the array of strings argument
    op,                         \* which function has been called ("none" before)
    ret,                        \* what it returned
    \* ---- one POST /api/process-documents request ----
    request,                    \* the request: content-length, form entries, environment
    serviceUp,                  \* does GET /health of the remote service answer 200 now
    pc,                         \* position of the handler
    isPythonServiceAvailable,   \* route.ts:378, the request-level probe result
    next,                       \* index of the next form entry of the loop at route.ts:406
    results,                    \* route.ts:395, the ProcessingResult[] built so far
    routes,                     \* per file handled: the branch of route.ts:415-468 taken and what chunkFile ended in
    uploads,                    \* the artifacts written to public/uploads, in write order
    uidCounter,                 \* how many uuidv4() values have been drawn
    response,                   \* the HTTP response of the handler
    \* ---- one call of a method of PythonServiceClient ----
    client                      \* the client's configuration, the call's position and locals, and its history

fnVars  == <<text, chunkSizeWords, fileSize, nWords, chunkList, op, ret>>
reqVars == <<request, serviceUp, pc, isPythonServiceAvailable, next, results, routes,
             uploads, uidCounter, response>>
vars    == <<fnVars, reqVars, client>>

(***************************************************************************)
(* Bounds of the model.                                                    *)
(***************************************************************************)
MaxTextLen   == 5        \* every string over ChunkAlphabet up to this length
MaxChunkSize == 3        \* chunk sizes 1..MaxChunkSize (plus the spec's size 10)
MaxParas     == 3        \* generated texts have up to this many paragraphs
MaxParaWords == 2        \* ... of 0..MaxParaWords words each (plus the spec's 12 and 8)
MaxCleanLen  == 4        \* every string over CleanAlphabet up to this length
MaxSmallWords == 3       \* classifier texts of 0..MaxSmallWords words (plus the threshold texts)
MaxDocs      == 3        \* documents in one request
MaxChunks    == 3        \* merged lists have up to this many chunks
MaxRetries   == 6        \* chunkFile is called on clients configured with 0..MaxRetries retries
MaxBatch     == 6        \* chunkMultipleFiles is called on 0..MaxBatch files
MaxBatchRetries == 2     \* ... on clients configured with 1..MaxBatchRetries retries
MaxBatchFailuresCounted == 2  \* failed batch calls are counted up to this number

(***************************************************************************)
(* Strings.                                                                *)
(***************************************************************************)
\* JavaScript's WhiteSpace and LineTerminator code points: what \s matches and
\* what String.prototype.trim strips.
IsWhiteSpace(c) ==
    \/ c \in {9, 10, 11, 12, 13, 32, 160, 5760, 8232, 8233, 8239, 8287, 12288, 65279}
    \/ (c >= 8192 /\ c <= 8202)

IsNewline(c) == c = 10

NonEmptyString(w) == Len(w) > 0

\* All sequences over S of length 0..n.
RECURSIVE StringsUpTo(_, _)
StringsUpTo(S, n) ==
    IF n = 0 THEN {<<>>}
    ELSE LET shorter == StringsUpTo(S, n - 1)
         IN shorter \cup {Append(s, c) : s \in {t \in shorter : Len(t) = n - 1}, c \in S}

\* String.prototype.trim
RECURSIVE TrimStart(_)
TrimStart(s) ==
    IF Len(s) > 0 /\ IsWhiteSpace(s[1]) THEN TrimStart(Tail(s)) ELSE s

RECURSIVE TrimEnd(_)
TrimEnd(s) ==
    IF Len(s) > 0 /\ IsWhiteSpace(s[Len(s)]) THEN TrimEnd(SubSeq(s, 1, Len(s) - 1)) ELSE s

trim(s) == TrimEnd(TrimStart(s))

\* s[lo..hi] cut at every single white space character (so two adjacent white
\* space characters have an empty piece between them), by halves.
RECURSIVE CutAtWhiteSpace(_, _, _)
CutAtWhiteSpace(s, lo, hi) ==
    IF lo > hi THEN << <<>> >>
    ELSE IF lo = hi THEN (IF IsWhiteSpace(s[lo]) THEN << <<>>, <<>> >> ELSE << <<s[lo]>> >>)
    ELSE LET mid == (lo + hi) \div 2
             L == CutAtWhiteSpace(s, lo, mid)
             R == CutAtWhiteSpace(s, mid + 1, hi)
         IN SubSeq(L, 1, Len(L) - 1) \o << L[Len(L)] \o R[1] >> \o Tail(R)

\* s.split(/\s+/): the pieces between the maximal runs of white space.  A string
\* that starts (ends) with white space has an empty first (last) piece; the
\* empty string gives [""].
SplitWhiteSpace(s) ==
    LET r == CutAtWhiteSpace(s, 1, Len(s))
    IN IF Len(r) <= 2 THEN r
       ELSE <<r[1]>> \o SelectSeq(SubSeq(r, 2, Len(r) - 1), NonEmptyString) \o <<r[Len(r)]>>

\* The end of the match of /\n\s*\n/ that starts at position i of s, or 0 when
\* there is none: s[i] is a newline and the match runs to the last newline of
\* the white space that follows it (\s* is greedy and backtracks to a newline).
RECURSIVE LastNewlineInRun(_, _, _)
LastNewlineInRun(s, j, best) ==
    IF j > Len(s) \/ ~IsWhiteSpace(s[j]) THEN best
    ELSE LastNewlineInRun(s, j + 1, IF IsNewline(s[j]) THEN j ELSE best)

BlankLineMatchEnd(s, i) ==
    IF i <= Len(s) /\ IsNewline(s[i]) THEN LastNewlineInRun(s, i + 1, 0) ELSE 0

\* s.split(/\n\s*\n/): scan from position i, the current piece starting at from.
RECURSIVE SplitBlankLinesFrom(_, _, _)
SplitBlankLinesFrom(s, from, i) ==
    IF i > Len(s) THEN << SubSeq(s, from, Len(s)) >>
    ELSE LET e == BlankLineMatchEnd(s, i)
         IN IF e > 0
            THEN << SubSeq(s, from, i - 1) >> \o SplitBlankLinesFrom(s, e + 1, e + 1)
            ELSE SplitBlankLinesFrom(s, from, i + 1)

SplitBlankLines(s) == SplitBlankLinesFrom(s, 1, 1)

\* Array.prototype.join
\* (mutant of join: empty pieces are left out)
RECURSIVE joinSkippingEmpty(_, _)
joinSkippingEmpty(pieces, sep) ==
    IF Len(pieces) = 0 THEN <<>>
    ELSE IF Len(pieces) = 1 THEN pieces[1]
    ELSE IF pieces[1] = <<>> THEN joinSkippingEmpty(Tail(pieces), sep)
    ELSE pieces[1] \o sep \o joinSkippingEmpty(Tail(pieces), sep)

RECURSIVE join(_, _)
join(pieces, sep) ==
    IF Len(pieces) = 0 THEN <<>>
    ELSE IF Len(pieces) = 1 THEN pieces[1]
    ELSE pieces[1] \o sep \o join(Tail(pieces), sep)

\* Concatenation of a sequence of sequences.
RECURSIVE Flatten(_)
Flatten(seqs) == IF Len(seqs) = 0 THEN <<>> ELSE seqs[1] \o Flatten(Tail(seqs))

(***************************************************************************)
(* FileAnalyzer, route.ts:8-54.                                            *)
(***************************************************************************)
LARGE_FILE_SIZE_THRESHOLD == 10 * 1024 * 1024
LARGE_FILE_WORD_THRESHOLD == 50000
CHUNK_SIZE_WORDS == 10000

\* (mutant of isLargeFile: the comparison made inclusive)
isLargeFileInclusive(size) == size >= LARGE_FILE_SIZE_THRESHOLD

isLargeFile(size) == size > LARGE_FILE_SIZE_THRESHOLD

\* `!text` is true of the empty string.
countWords(t) ==
    IF Len(t) = 0 \/ Len(trim(t)) = 0 THEN 0
    ELSE Len(SelectSeq(SplitWhiteSpace(trim(t)), NonEmptyString))

isLargeContent(t) == countWords(t) > LARGE_FILE_WORD_THRESHOLD

\* shouldProcessAsLargeFile(fileSize, text?): hasText is FALSE when the optional
\* argument is left out (route.ts:413); an empty string is falsy as well.
shouldProcessAsLargeFile(size, hasText, t) ==
    LET isLargeBySize == isLargeFile(size)
        isLargeByContent == IF hasText /\ Len(t) > 0 THEN isLargeContent(t) ELSE FALSE
    IN isLargeBySize \/ isLargeByContent

\* Math.ceil(a / b) for a >= 0, b > 0
Ceil(a, b) == (a + b - 1) \div b

\* fileSizeMB is Math.round(size / 2^20 * 100) / 100; it is kept in hundredths.
ProcessingInfo(size, wordCount, isLarge) ==
    [ isLarge |-> isLarge,
      wordCount |-> wordCount,
      estimatedChunks |-> IF isLarge THEN Ceil(wordCount, CHUNK_SIZE_WORDS) ELSE 1,
      fileSizeHundredthsMB |-> (size * 200 + 1024 * 1024) \div (2 * 1024 * 1024) ]

getProcessingInfo(size, t) ==
    ProcessingInfo(size, countWords(t), shouldProcessAsLargeFile(size, TRUE, t))

(***************************************************************************)
(* TextChunker, route.ts:57-116.                                           *)
(***************************************************************************)
Min(a, b) == IF a < b THEN a ELSE b

\* (mutant of FixedWindows: a last window shorter than size is dropped)
RECURSIVE FixedWindowsDropShortTail(_, _, _)
FixedWindowsDropShortTail(words, i, size) ==
    IF i + size > Len(words) THEN <<>>
    ELSE << join(SubSeq(words, i + 1, i + size), <<32>>) >>
         \o FixedWindowsDropShortTail(words, i + size, size)

\* (mutant of FixedWindows: slice(i, i + size + 1), one word too many per window)
RECURSIVE FixedWindowsOneWordLonger(_, _, _)
FixedWindowsOneWordLonger(words, i, size) ==
    IF i >= Len(words) THEN <<>>
    ELSE << join(SubSeq(words, i + 1, Min(i + size + 1, Len(words))), <<32>>) >>
         \o FixedWindowsOneWordLonger(words, i + size, size)

\* The loop of route.ts:64-68: i is the 0-based index of the window's first word.
RECURSIVE FixedWindows(_, _, _)
FixedWindows(words, i, size) ==
    IF i >= Len(words) THEN <<>>
    ELSE << join(SubSeq(words, i + 1, Min(i + size, Len(words))), <<32>>) >>
         \o FixedWindows(words, i + size, size)

splitIntoChunks(t, size) ==
    IF Len(t) = 0 \/ Len(trim(t)) = 0 THEN <<>>
    ELSE FixedWindows(SplitWhiteSpace(trim(t)), 0, size)

\* (mutant of StructuredStep: the paragraph is always added to the current
\* chunk, which is not finalized before it would exceed the size)
StructuredStepAlwaysAdds(st, paragraph, size) ==
    LET paragraphWordCount == Len(SelectSeq(SplitWhiteSpace(trim(paragraph)), NonEmptyString))
        a == [ chunks |-> st.chunks,
               currentChunk |-> IF Len(st.currentChunk) > 0
                                THEN st.currentChunk \o <<10, 10>> \o paragraph
                                ELSE paragraph,
               currentWordCount |-> st.currentWordCount + paragraphWordCount ]
    IN IF a.currentWordCount >= size
       THEN [ chunks |-> Append(a.chunks, trim(a.currentChunk)),
              currentChunk |-> <<>>,
              currentWordCount |-> 0 ]
       ELSE a

\* One iteration of the loop of route.ts:82-107 on `paragraph`; st is
\* [chunks, currentChunk, currentWordCount].
StructuredStep(st, paragraph, size) ==
    LET paragraphWordCount == Len(SelectSeq(SplitWhiteSpace(trim(paragraph)), NonEmptyString))
        a == IF st.currentWordCount > 0 /\ st.currentWordCount + paragraphWordCount > size
             THEN [ chunks |-> Append(st.chunks, trim(st.currentChunk)),
                    currentChunk |-> paragraph,
                    currentWordCount |-> paragraphWordCount ]
             ELSE [ chunks |-> st.chunks,
                    currentChunk |-> IF Len(st.currentChunk) > 0
                                     THEN st.currentChunk \o <<10, 10>> \o paragraph
                                     ELSE paragraph,
                    currentWordCount |-> st.currentWordCount + paragraphWordCount ]
    IN IF a.currentWordCount >= size
       THEN [ chunks |-> Append(a.chunks, trim(a.currentChunk)),
              currentChunk |-> <<>>,
              currentWordCount |-> 0 ]
       ELSE a

RECURSIVE StructuredLoop(_, _, _)
StructuredLoop(st, paragraphs, size) ==
    IF Len(paragraphs) = 0 THEN st
    ELSE StructuredLoop(StructuredStep(st, paragraphs[1], size), Tail(paragraphs), size)

\* (mutant of splitWithStructurePreservation: the text is cut into word windows,
\* whatever its paragraphs)
splitByWordWindows(t, size) == splitIntoChunks(t, size)

splitWithStructurePreservation(t, size) ==
    IF Len(t) = 0 \/ Len(trim(t)) = 0 THEN <<>>
    ELSE LET st == StructuredLoop([chunks |-> <<>>, currentChunk |-> <<>>, currentWordCount |-> 0],
                                  SplitBlankLines(t), size)
         IN IF Len(trim(st.currentChunk)) > 0
            THEN Append(st.chunks, trim(st.currentChunk))
            ELSE st.chunks

(***************************************************************************)
(* ArabicTextRemover, route.ts:119-165.                                    *)
(***************************************************************************)
\* route.ts:120-127 (0x0600-0x06FF, 0x0750-0x077F, 0x08A0-0x08FF, 0xFB50-0xFDFF,
\* 0xFE70-0xFEFF, 0x1EE00-0x1EEFF)
arabicRanges ==
    << <<1536, 1791>>, <<1872, 1919>>, <<2208, 2303>>,
       <<64336, 65023>>, <<65136, 65279>>, <<126464, 126719>> >>

\* Number.prototype.toString(16).toUpperCase(): the hexadecimal digits of n as
\* code points ('0'..'9' are 48..57, 'A'..'F' are 65..70).
HexDigitChar(d) == IF d < 10 THEN 48 + d ELSE 55 + d

RECURSIVE ToUpperHex(_)
ToUpperHex(n) ==
    IF n < 16 THEN <<HexDigitChar(n)>>
    ELSE Append(ToUpperHex(n \div 16), HexDigitChar(n % 16))

\* String.prototype.padStart(width, pad)
RECURSIVE padStart(_, _, _)
padStart(s, width, pad) == IF Len(s) >= width THEN s ELSE padStart(<<pad>> \o s, width, pad)

\* route.ts:135-137: the piece of pattern source built for one range,
\* backslash u { START - END }   (92 117 123 ... 45 ... 125)
RangeSource(range) ==
    <<92, 117, 123>> \o padStart(ToUpperHex(range[1]), 4, 48)
                     \o <<45>> \o padStart(ToUpperHex(range[2]), 4, 48) \o <<125>>

RECURSIVE RangeSources(_)
RangeSources(ranges) ==
    IF Len(ranges) = 0 THEN <<>>
    ELSE <<RangeSource(ranges[1])>> \o RangeSources(Tail(ranges))

\* route.ts:138: `[${ranges.join('')}]`
arabicPatternSource == <<91>> \o join(RangeSources(arabicRanges), <<>>) \o <<93>>

IsHexDigitChar(c) == (c >= 48 /\ c <= 57) \/ (c >= 65 /\ c <= 70) \/ (c >= 97 /\ c <= 102)

HexDigitValue(c) == IF c <= 57 THEN c - 48 ELSE IF c <= 70 THEN c - 55 ELSE c - 87

\* The position after the hexadecimal digits of src that start at i.
RECURSIVE HexDigitsEnd(_, _)
HexDigitsEnd(src, i) ==
    IF i <= Len(src) /\ IsHexDigitChar(src[i]) THEN HexDigitsEnd(src, i + 1) ELSE i

RECURSIVE HexValue(_, _, _, _)
HexValue(src, i, j, acc) ==
    IF i >= j THEN acc ELSE HexValue(src, i + 1, j, acc * 16 + HexDigitValue(src[i]))

\* One ClassAtom of a character class in a pattern compiled with the u flag,
\* starting at src[i]: [ok, cp, next].  With the u flag a backslash followed by u
\* must be \uHHHH or \u{H..H} with a value up to 0x10FFFF: anything else is a
\* SyntaxError (there is no identity escape for u in Unicode mode).  The other
\* escapes do not occur in the source built here.
ClassAtomU(src, i) ==
    IF src[i] # 92 THEN [ok |-> TRUE, cp |-> src[i], next |-> i + 1]
    ELSE IF i + 1 <= Len(src) /\ src[i + 1] = 117
    THEN IF i + 2 <= Len(src) /\ src[i + 2] = 123
         THEN LET j == HexDigitsEnd(src, i + 3)
                  v == HexValue(src, i + 3, j, 0)
              IN IF j > i + 3 /\ j <= Len(src) /\ src[j] = 125 /\ v <= 1114111
                 THEN [ok |-> TRUE, cp |-> v, next |-> j + 1]
                 ELSE [ok |-> FALSE, cp |-> 0, next |-> i]
         ELSE IF HexDigitsEnd(src, i + 2) >= i + 6
              THEN [ok |-> TRUE, cp |-> HexValue(src, i + 2, i + 6, 0), next |-> i + 6]
              ELSE [ok |-> FALSE, cp |-> 0, next |-> i]
    ELSE [ok |-> FALSE, cp |-> 0, next |-> i]

\* The ClassRanges of src from position i up to the closing bracket, added to
\* acc (a set of <<low, high>> pairs).  ClassRangesAfter continues behind the
\* atom a, ClassRangesAfterDash behind a dash and the atom b.
RECURSIVE ClassRangesU(_, _, _)
RECURSIVE ClassRangesAfter(_, _, _)
RECURSIVE ClassRangesAfterDash(_, _, _, _)
ClassRangesAfterDash(src, acc, a, b) ==
    IF ~b.ok THEN [ok |-> FALSE, error |-> "SyntaxError: Invalid Unicode escape"]
    ELSE IF a.cp > b.cp
    THEN [ok |-> FALSE, error |-> "SyntaxError: Range out of order in character class"]
    ELSE ClassRangesU(src, b.next, acc \cup {<<a.cp, b.cp>>})

ClassRangesAfter(src, acc, a) ==
    IF ~a.ok THEN [ok |-> FALSE, error |-> "SyntaxError: Invalid Unicode escape"]
    ELSE IF a.next + 1 <= Len(src) /\ src[a.next] = 45 /\ src[a.next + 1] # 93
    THEN ClassRangesAfterDash(src, acc, a, ClassAtomU(src, a.next + 1))
    ELSE ClassRangesU(src, a.next, acc \cup {<<a.cp, a.cp>>})

ClassRangesU(src, i, acc) ==
    IF i > Len(src) THEN [ok |-> FALSE, error |-> "SyntaxError: Unterminated character class"]
    ELSE IF src[i] = 93 THEN [ok |-> TRUE, value |-> acc]
    ELSE ClassRangesAfter(src, acc, ClassAtomU(src, i))

\* new RegExp(src, 'gu') for a source that is one character class.
NewRegExpU(src) ==
    IF Len(src) = 0 \/ src[1] # 91
    THEN [ok |-> FALSE, error |-> "SyntaxError: not a character class"]
    ELSE ClassRangesU(src, 2, {})

\* route.ts:141 (0x064B-0x065F, 0x0670, 0x06D6-0x06ED)
diacriticsPattern == { <<1611, 1631>>, <<1648, 1648>>, <<1750, 1773>> }

\* route.ts:144 (0x060C, 0x061B, 0x061F, 0x0640, 0x066A-0x066D)
arabicPunctuation ==
    { <<1548, 1548>>, <<1563, 1563>>, <<1567, 1567>>, <<1600, 1600>>, <<1642, 1645>> }

\* The remover constructed around the compiled pattern re, or what compiling
\* it threw.
ArabicTextRemoverWith(re) ==
    IF re.ok
    THEN [ ok |-> TRUE,
           value |-> [ arabicPattern |-> re.value,
                       diacriticsPattern |-> diacriticsPattern,
                       arabicPunctuation |-> arabicPunctuation ] ]
    ELSE [ ok |-> FALSE, error |-> re.error ]

\* new ArabicTextRemover(): the constructor of route.ts:133-145; it throws what
\* new RegExp throws.
NewArabicTextRemover == ArabicTextRemoverWith(NewRegExpU(arabicPatternSource))

Matches(class, c) == \E r \in class : r[1] <= c /\ c <= r[2]

\* text.replace(<class>/g, '')
RemoveClass(t, class) == SelectSeq(t, LAMBDA c : ~Matches(class, c))

\* text.replace(/\s+/g, ' ')
CollapseWhiteSpace(t) == join(SplitWhiteSpace(t), <<32>>)

\* text.replace(/\n\s*\n/g, '\n\n')
CollapseBlankLines(t) == join(SplitBlankLines(t), <<10, 10>>)

\* cleanText of route.ts:147-164 on the remover `self`.
cleanText(self, t) ==
    IF Len(t) = 0 THEN t
    ELSE trim(CollapseBlankLines(CollapseWhiteSpace(
            RemoveClass(RemoveClass(RemoveClass(t, self.arabicPattern),
                                    self.diacriticsPattern),
                        self.arabicPunctuation))))

\* remover.cleanText(t) on the outcome of the constructor.
CleanWith(remover, t) ==
    IF remover.ok THEN [ok |-> TRUE, value |-> cleanText(remover.value, t)]
    ELSE [ok |-> FALSE, error |-> remover.error]

\* new ArabicTextRemover().cleanText(t), as every caller does it
\* (route.ts:170-171, 179-180, 191-192, 232+239, 305+312, 452-453).
clean(t) == CleanWith(NewArabicTextRemover, t)

(***************************************************************************)
(* The extractors, route.ts:168-196.  A file is a record                   *)
(*   [isFile, base, ext, size, content, times, extractFails, failAtWrite]:  *)
(* its name is base followed by ext, content written times times over is    *)
(* the text its bytes decode or parse to, extractFails says that pdf-parse  *)
(* or mammoth throws on it, and failAtWrite = k > 0 says that the k-th      *)
(* fs.writeFile made for it throws.  An error message is a tuple of its     *)
(* parts.                                                                  *)
(***************************************************************************)
Throw(message) == [ok |-> FALSE, error |-> message]
Return(value) == [ok |-> TRUE, value |-> value]

\* what the try block of an extractor evaluated to, c, becomes
Rethrow(c) == IF c.ok THEN c ELSE [ok |-> FALSE, error |-> <<c.error>>]
Replace(c, message) == IF c.ok THEN c ELSE [ok |-> FALSE, error |-> <<message>>]

\* buffer.toString('utf-8'), data.text, result.value: the text of the file, its
\* content written `times` times over (built by index: a text at the word
\* threshold is too long for a recursive definition).
TextOf(file) ==
    IF file.times = 1 THEN file.content
    ELSE SubSeq([i \in 1..(file.times * Len(file.content)) |->
                    file.content[((i - 1) % Len(file.content)) + 1]],
                1, file.times * Len(file.content))

processTxtFile(file) == Rethrow(clean(TextOf(file)))

\* whatever is thrown inside the try block is replaced by the fixed message
processPdfFile(file) ==
    IF file.extractFails THEN Throw(<<"Failed to process PDF file">>)
    ELSE Replace(clean(TextOf(file)), "Failed to process PDF file")

processDocxFile(file) ==
    IF file.extractFails THEN Throw(<<"Failed to process DOCX file">>)
    ELSE Replace(clean(TextOf(file)), "Failed to process DOCX file")

\* route.ts:426-440
Extract(file) ==
    CASE file.ext = ".txt"  -> processTxtFile(file)
      [] file.ext = ".pdf"  -> processPdfFile(file)
      [] file.ext = ".docx" -> processDocxFile(file)
      [] OTHER -> Throw(<<"Unsupported file type: ", file.ext>>)

(***************************************************************************)
(* Artifacts.  A name is a tuple <<base, infix, n, uid, extension>>         *)
(* (n = 0 when the name has no chunk number); uuidv4() is modelled as a     *)
(* counter, its k-th value being k.                                        *)
(***************************************************************************)
FileName(file) == <<file.base, file.ext>>

\* "\n\n--- CHUNK SEPARATOR ---\n\n"
ChunkSeparator ==
    <<10, 10, 45, 45, 45, 32, 67, 72, 85, 78, 75, 32, 83, 69, 80, 65, 82, 65, 84, 79, 82,
      32, 45, 45, 45, 10, 10>>

\* What a pipeline that is to write `planned` (a sequence of [name, content])
\* and then to return `success` ends in: the writes stop at the one that
\* throws, uuidv4() having been called once before each write attempted, and
\* `failure` is what the catch makes of the error.
AfterWrites(file, planned, success, failure) ==
    IF file.failAtWrite \in 1..Len(planned)
    THEN [ result |-> failure,
           written |-> SubSeq(planned, 1, file.failAtWrite - 1),
           uids |-> file.failAtWrite ]
    ELSE [ result |-> success, written |-> planned, uids |-> Len(planned) ]

\* The chunk files, the merged file and the archive written for cleaned chunks
\* (route.ts:237-273 and 311-346); numbers[i] is the number put in the i-th
\* chunk file's name, archiveInfix the infix of the archive's name.
ArchiveEntries(file, cleanedChunks, mergedContent) ==
    [i \in 1..Len(cleanedChunks) |-> [ name |-> <<file.base, "_chunk_", i, ".txt">>,
                                       content |-> cleanedChunks[i] ]]
    \o << [ name |-> <<file.base, "_merged", 0, ".txt">>, content |-> mergedContent ] >>

ChunkedWritesOf(file, cleanedChunks, numbers, archiveInfix, uid0, mergedContent) ==
    [i \in 1..Len(cleanedChunks) |->
        [ name |-> <<file.base, "_chunk_", numbers[i], uid0 + i, ".txt">>,
          content |-> cleanedChunks[i] ]]
    \o << [ name |-> <<file.base, "_cleaned_merged_", 0, uid0 + Len(cleanedChunks) + 1, ".txt">>,
            content |-> mergedContent ],
          [ name |-> <<file.base, archiveInfix, 0, uid0 + Len(cleanedChunks) + 2, ".zip">>,
            content |-> ArchiveEntries(file, cleanedChunks, mergedContent) ] >>

ChunkedWrites(file, cleanedChunks, numbers, archiveInfix, uid0) ==
    ChunkedWritesOf(file, cleanedChunks, numbers, archiveInfix, uid0,
                    join(cleanedChunks, ChunkSeparator))

\* cleanText on each string of a list
CleanEach(remover, strings) ==
    [i \in 1..Len(strings) |-> cleanText(remover, strings[i])]

(***************************************************************************)
(* What pythonServiceClient.chunkFile can end in, python-service-client.ts  *)
(* 88-138: it throws once its retries are exhausted, or returns the         *)
(* response of the service, which is not one with success false and an      *)
(* error message (those are thrown and retried, line 117).                  *)
(***************************************************************************)
RemoteChunk(n, content) == [chunk_number |-> n, content |-> content]

ChunkFileOutcomes ==
    { Throw(<<"Failed to chunk file after 3 attempts: ", "HTTP 500">>),
      Throw(<<"Failed to chunk file after 3 attempts: ",
              "Python service error: Unsupported format">>),
      Return([ success |-> TRUE, error |-> <<>>, hasChunks |-> TRUE,
               chunks |-> << RemoteChunk(1, <<97, 32, 1575>>), RemoteChunk(2, <<98>>) >>,
               chunk_count |-> 2, total_word_count |-> 3 ]),
      Return([ success |-> TRUE, error |-> <<>>, hasChunks |-> FALSE,
               chunks |-> <<>>, chunk_count |-> 0, total_word_count |-> 0 ]),
      Return([ success |-> FALSE, error |-> <<>>, hasChunks |-> TRUE,
               chunks |-> << RemoteChunk(1, <<97>>) >>,
               chunk_count |-> 1, total_word_count |-> 1 ]) }

(***************************************************************************)
(* processLargeFileWithPythonService, route.ts:212-295.  available is the   *)
(* answer of its own probe, outcome what chunkFile ends in, uid0 the number *)
(* of uuids drawn so far.  Gives [result, written, uids].                   *)
(***************************************************************************)
LargeFileError(file, message) ==
    [ originalName |-> FileName(file), status |-> "error", error |-> message,
      isLargeFile |-> TRUE ]

NoWrites(result) == [ result |-> result, written |-> <<>>, uids |-> 0 ]

\* route.ts:275-284 once `planned` is written
RemoteSuccess(file, chunkingResult, planned) ==
    [ originalName |-> FileName(file),
      cleanedUrl |-> planned[Len(planned) - 1].name,
      zipUrl |-> planned[Len(planned)].name,
      status |-> "success",
      isLargeFile |-> TRUE,
      chunks |-> chunkingResult.chunk_count,
      wordCount |-> chunkingResult.total_word_count ]

RemoteWrites(file, chunkingResult, planned) ==
    AfterWrites(file, planned, RemoteSuccess(file, chunkingResult, planned),
                LargeFileError(file, <<"EIO: write failed">>))

\* route.ts:231-284: chunks is `chunkingResult.chunks || []`, remover the outcome
\* of new ArabicTextRemover() at line 232.
RemoteChunksCleaned(file, chunkingResult, chunks, remover, uid0) ==
    IF ~remover.ok THEN NoWrites(LargeFileError(file, <<remover.error>>))
    ELSE RemoteWrites(file, chunkingResult,
            ChunkedWrites(file,
                CleanEach(remover.value, [i \in 1..Len(chunks) |-> chunks[i].content]),
                [i \in 1..Len(chunks) |-> chunks[i].chunk_number],
                "_cleaned_chunks_", uid0))

\* (mutant of processLargeFileWithPythonService: without the check of
\* chunkingResult.success at lines 226-228)
processLargeFileWithPythonServiceUnchecked(file, available, outcome, uid0) ==
    IF ~available
    THEN NoWrites(LargeFileError(file, <<"Python chunking service is not available. Please ensure the service is running.">>))
    ELSE IF ~outcome.ok
    THEN NoWrites(LargeFileError(file, outcome.error))
    ELSE RemoteChunksCleaned(file, outcome.value,
            IF outcome.value.hasChunks THEN outcome.value.chunks ELSE <<>>,
            NewArabicTextRemover, uid0)

processLargeFileWithPythonService(file, available, outcome, uid0) ==
    IF ~available
    THEN NoWrites(LargeFileError(file, <<"Python chunking service is not available. Please ensure the service is running.">>))
    ELSE IF ~outcome.ok
    THEN NoWrites(LargeFileError(file, outcome.error))
    ELSE IF ~outcome.value.success
    THEN NoWrites(LargeFileError(file,
                     IF Len(outcome.value.error) > 0 THEN outcome.value.error
                     ELSE <<"Python service failed to process file">>))
    ELSE RemoteChunksCleaned(file, outcome.value,
            IF outcome.value.hasChunks THEN outcome.value.chunks ELSE <<>>,
            NewArabicTextRemover, uid0)

(***************************************************************************)
(* processLargeFile, route.ts:298-368: the local fallback on the extracted  *)
(* content.                                                                *)
(***************************************************************************)
\* route.ts:348-357 once `planned` is written
LocalSuccess(file, processingInfo, planned) ==
    [ originalName |-> FileName(file),
      cleanedUrl |-> planned[Len(planned) - 1].name,
      zipUrl |-> planned[Len(planned)].name,
      status |-> "success",
      isLargeFile |-> TRUE,
      chunks |-> Len(planned) - 2,
      wordCount |-> processingInfo.wordCount ]

LocalWrites(file, processingInfo, planned) ==
    AfterWrites(file, planned, LocalSuccess(file, processingInfo, planned),
                LargeFileError(file, <<"EIO: write failed">>))

\* route.ts:306-357: chunks is what the structured chunker returned.
LocalChunksCleaned(file, processingInfo, remover, chunks, uid0) ==
    LocalWrites(file, processingInfo,
        ChunkedWrites(file, CleanEach(remover, chunks), [i \in 1..Len(chunks) |-> i],
                      "_cleaned_batch_", uid0))

\* remover is the outcome of new ArabicTextRemover() at line 305.
LocalChunking(file, content, processingInfo, remover, uid0) ==
    IF ~remover.ok THEN NoWrites(LargeFileError(file, <<remover.error>>))
    ELSE LocalChunksCleaned(file, processingInfo, remover.value,
            splitWithStructurePreservation(content, CHUNK_SIZE_WORDS), uid0)

processLargeFile(file, content, processingInfo, uid0) ==
    LocalChunking(file, content, processingInfo, NewArabicTextRemover, uid0)

(***************************************************************************)
(* The body of the loop of POST for one file, route.ts:408-479.             *)
(* requestProbe is isPythonServiceAvailable of line 378, fileProbe the      *)
(* answer the service gives when this file's own probe is made.             *)
(***************************************************************************)
\* (mutant of FileError: the Error outcome refers to a cleaned artifact)
FileErrorWithArtifact(file, message) ==
    [ originalName |-> FileName(file), cleanedUrl |-> <<file.base, "_cleaned_", 0, 0, ".txt">>,
      status |-> "error", error |-> message ]

\* the catch of route.ts:471-479
FileError(file, message) ==
    [ originalName |-> FileName(file), cleanedUrl |-> <<>>, status |-> "error",
      error |-> message ]

\* route.ts:455-467 once `planned` (the one cleaned file) is written
RegularSuccess(file, processingInfo, planned) ==
    [ originalName |-> FileName(file),
      cleanedUrl |-> planned[1].name,
      status |-> "success",
      isLargeFile |-> FALSE,
      wordCount |-> processingInfo.wordCount ]

RegularWrites(file, processingInfo, planned) ==
    AfterWrites(file, planned, RegularSuccess(file, processingInfo, planned),
                FileError(file, <<"EIO: write failed">>))

\* route.ts:451-467: remover is the outcome of new ArabicTextRemover() at line 452.
RegularFile(file, extractedContent, processingInfo, remover, uid0) ==
    IF ~remover.ok THEN NoWrites(FileError(file, <<remover.error>>))
    ELSE RegularWrites(file, processingInfo,
            << [ name |-> <<file.base, "_cleaned_", 0, uid0 + 1, ".txt">>,
                 content |-> cleanText(remover.value, extractedContent) ] >>)

\* Which branch of route.ts:415-468 a file took ("none": it failed before the
\* branch at line 445), with what the branch ended in.
Routed(route, run) == [route |-> route, run |-> run]

\* route.ts:445-468
AfterAnalysis(file, requestProbe, extractedContent, processingInfo, uid0) ==
    IF processingInfo.isLarge /\ ~requestProbe
    THEN Routed("Local", processLargeFile(file, extractedContent, processingInfo, uid0))
    ELSE Routed("LocalSingleChunk",
                RegularFile(file, extractedContent, processingInfo, NewArabicTextRemover, uid0))

\* route.ts:442-468: extracted is what the extractor returned or threw.
AfterExtraction(file, requestProbe, extracted, uid0) ==
    IF ~extracted.ok THEN Routed("none", NoWrites(FileError(file, extracted.error)))
    ELSE AfterAnalysis(file, requestProbe, extracted.value,
                       getProcessingInfo(file.size, extracted.value), uid0)

ProcessFile(file, requestProbe, fileProbe, outcome, uid0) ==
    IF requestProbe /\ shouldProcessAsLargeFile(file.size, FALSE, <<>>)
    THEN Routed("Remote", processLargeFileWithPythonService(file, fileProbe, outcome, uid0))
    ELSE AfterExtraction(file, requestProbe, Extract(file), uid0)

\* results.push(r.result)
Pushed(resultsSoFar, r) ==
    [ results |-> Append(resultsSoFar, r.run.result), written |-> r.run.written,
      uids |-> r.run.uids, route |-> r.route ]

\* a failed file's outcome is not pushed
PushedUnlessFailed(resultsSoFar, r) ==
    [ results |-> IF r.run.result.status = "error" THEN resultsSoFar
                  ELSE Append(resultsSoFar, r.run.result),
      written |-> r.run.written, uids |-> r.run.uids, route |-> r.route ]

\* (mutant of LoopBody: a file whose processing failed gets no outcome)
LoopBodyDropsFailures(resultsSoFar, file, requestProbe, fileProbe, outcome, uid0) ==
    PushedUnlessFailed(resultsSoFar, ProcessFile(file, requestProbe, fileProbe, outcome, uid0))

\* One iteration of the loop of route.ts:406-481 on a file entry: every branch,
\* the catch included, ends in one results.push.
LoopBody(resultsSoFar, file, requestProbe, fileProbe, outcome, uid0) ==
    Pushed(resultsSoFar, ProcessFile(file, requestProbe, fileProbe, outcome, uid0))

(***************************************************************************)
(* The request variables while only a pure function is exercised.          *)
(***************************************************************************)
NoRequest ==
    /\ request = [contentLength |-> -1, entries |-> <<>>]
    /\ serviceUp = FALSE
    /\ pc = "idle"
    /\ isPythonServiceAvailable = FALSE
    /\ next = 1
    /\ results = <<>>
    /\ routes = <<>>
    /\ uploads = <<>>
    /\ uidCounter = 0
    /\ response = [status |-> 0, body |-> <<>>, error |-> <<>>]

(***************************************************************************)
(* PythonServiceClient, python-service-client.ts.  The variable client is   *)
(* a record: configRetries (what the constructor was given, 0 for nothing), *)
(* retries (this.config.retries), op and files (the method called and its   *)
(* files, by name), pc, the locals attempt, lastError, index (of the file   *)
(* of the loop at line 156) and results, and ret (what the method returned  *)
(* or threw).  History: calls (what each fetch of the current chunkFile     *)
(* call gave), waits (the delays it slept), invoked (each chunkFile call    *)
(* with what it ended in) and batchFailures (failed /chunk-multiple calls,  *)
(* counted up to MaxBatchFailuresCounted).                                  *)
(***************************************************************************)
NotReturned == [ok |-> FALSE, error |-> <<"not returned">>]

IdleClient ==
    [ op |-> "idle", pc |-> "idle", configRetries |-> 0, retries |-> 0, files |-> <<>>,
      index |-> 0, attempt |-> 0, lastError |-> <<>>, results |-> <<>>, ret |-> NotReturned,
      calls |-> <<>>, waits |-> <<>>, invoked |-> <<>>, batchFailures |-> 0 ]

NoClientCall == client = IdleClient

\* line 43: retries: config.retries || 3
RetriesOf(configRetries) == IF configRetries = 0 THEN 3 ELSE configRetries

\* A client built with configRetries, one of its methods called on files.
CalledClient(method, configRetries, files) ==
    [ IdleClient EXCEPT !.op = method, !.pc = "called", !.configRetries = configRetries,
                        !.retries = RetriesOf(configRetries), !.files = files ]

\* What the service can answer to POST /chunk-file for a file: no answer (fetch
\* throws), a status that is not ok, a failure with a message, a failure
\* without one, chunks.
ChunkFileResponses(fileName) ==
    { [ kind |-> "fetch throws", status |-> 0, body |-> <<>> ],
      [ kind |-> "http", status |-> 500, body |-> "Internal Server Error" ],
      [ kind |-> "json", status |-> 200,
        body |-> [ success |-> FALSE, file_name |-> fileName, error |-> "Unsupported format" ] ],
      [ kind |-> "json", status |-> 200,
        body |-> [ success |-> FALSE, file_name |-> fileName, error |-> "" ] ],
      [ kind |-> "json", status |-> 200,
        body |-> [ success |-> TRUE, file_name |-> fileName, error |-> "" ] ] }

\* lines 104-122: what one attempt makes of the answer
AttemptOutcome(answer) ==
    IF answer.kind = "fetch throws" THEN Throw(<<"fetch failed">>)
    ELSE IF answer.kind = "http"
    THEN Throw(<<"HTTP ", answer.status, ": ", answer.body>>)
    ELSE IF ~answer.body.success /\ answer.body.error # ""
    THEN Throw(<<"Python service error: ", answer.body.error>>)
    ELSE Return(answer.body)

\* (mutant of CanRetry: a wait follows the last attempt too)
CanRetryAfterLast(attempt, retries) == attempt <= retries

\* line 128
CanRetry(attempt, retries) == attempt < retries

\* (mutant of backoffDelay: the delay does not grow)
backoffDelayFlat(attempt) == 1000

\* (mutant of backoffDelay: the delay keeps doubling, without the cap of 10 s)
backoffDelayUncapped(attempt) == 1000 * 2 ^ (attempt - 1)

\* line 130
backoffDelay(attempt) == Min(1000 * 2 ^ (attempt - 1), 10000)

\* line 137
ExhaustedError(retries, lastError) ==
    <<"Failed to chunk file after ", retries, " attempts: ">> \o lastError

\* lines 161-166
FailedResult(fileName, message) ==
    [ success |-> FALSE, file_name |-> fileName, error |-> message,
      error_type |-> "ProcessingError" ]

\* lines 93-100: chunkFile starts on file number i of c.files
ChunkFileStarts(c, i) ==
    [ c EXCEPT !.pc = "attempt", !.index = i, !.attempt = 1, !.lastError = <<>>,
               !.calls = <<>>, !.waits = <<>> ]

\* The loop of lines 156-170 once `pushed` is the results array: the next file,
\* or the return of line 170.
LoopGoesOn(c, pushed) ==
    IF c.index < Len(c.files)
    THEN [ ChunkFileStarts(c, c.index + 1) EXCEPT !.results = pushed ]
    ELSE [ c EXCEPT !.pc = "done", !.results = pushed, !.ret = Return(pushed) ]

\* (mutant of ChunkFileEnds: a file whose chunkFile call threw is left out of
\* the results)
ChunkFileEndsDroppingFailures(c, outcome) ==
    IF c.op = "chunkFile" THEN [ c EXCEPT !.pc = "done", !.ret = outcome ]
    ELSE LoopGoesOn(c, IF outcome.ok THEN Append(c.results, outcome.value) ELSE c.results)

\* chunkFile ends in outcome (line 122 or 137): the call of chunkFile itself is
\* done, and inside chunkMultipleFiles lines 158-167 push a result.
ChunkFileEnds(c, outcome) ==
    IF c.op = "chunkFile" THEN [ c EXCEPT !.pc = "done", !.ret = outcome ]
    ELSE LoopGoesOn(c, Append(c.results,
                              IF outcome.ok THEN outcome.value
                              ELSE FailedResult(c.files[c.index], outcome.error)))

Invoked(c, outcome) ==
    [ c EXCEPT !.invoked = Append(@, [ file |-> c.files[c.index], outcome |-> outcome ]) ]

\* lines 100-134 for one attempt that gave o
AfterAttempt(c, o) ==
    IF o.ok THEN ChunkFileEnds(Invoked(c, o), o)
    ELSE IF CanRetry(c.attempt, c.retries)
    THEN [ c EXCEPT !.lastError = o.error, !.pc = "backoff" ]
    ELSE ChunkFileEnds(Invoked([ c EXCEPT !.lastError = o.error ],
                               Throw(ExhaustedError(c.retries, o.error))),
                       Throw(ExhaustedError(c.retries, o.error)))

Called(c, o) == [ c EXCEPT !.calls = Append(@, o) ]

\* What the service can answer to POST /chunk-multiple.
ChunkMultipleResponses(files) ==
    { [ kind |-> "fetch throws", status |-> 0, hasResults |-> FALSE, results |-> <<>> ],
      [ kind |-> "http", status |-> 500, hasResults |-> FALSE, results |-> <<>> ],
      [ kind |-> "json", status |-> 200, hasResults |-> FALSE, results |-> <<>> ],
      [ kind |-> "json", status |-> 200, hasResults |-> TRUE,
        results |-> [ i \in 1..Len(files) |->
                        [ success |-> TRUE, file_name |-> files[i], error |-> "" ] ] ] }

\* lines 180-192: `data.results || []`, or what is thrown
BatchOutcome(answer) ==
    IF answer.kind = "fetch throws" THEN Throw(<<"fetch failed">>)
    ELSE IF answer.kind = "http"
    THEN Throw(<<"HTTP ", answer.status, ": ", "Internal Server Error">>)
    ELSE Return(IF answer.hasResults THEN answer.results ELSE <<>>)

\* lines 148-178: chunkMultipleFiles entered with c.files
EnterChunkMultipleFiles(c) ==
    IF Len(c.files) = 0 THEN [ c EXCEPT !.pc = "done", !.ret = Return(<<>>) ]
    ELSE IF Len(c.files) > 5 THEN ChunkFileStarts(c, 1)
    ELSE [ c EXCEPT !.pc = "batch" ]

\* lines 179-195: the batch call gave o; a failure is caught.
AfterBatchCall(c, o) ==
    IF o.ok THEN [ c EXCEPT !.pc = "done", !.ret = o ]
    ELSE [ c EXCEPT !.pc = "caught", !.batchFailures = Min(@ + 1, MaxBatchFailuresCounted) ]

(***************************************************************************)
(* Input texts.                                                            *)
(***************************************************************************)
\* 'a', 'b', space, newline
ChunkAlphabet == {97, 98, 32, 10}

\* The k-th of a family of distinct one-letter words (Latin Extended-A letters).
Word(k) == <<256 + k>>

\* n distinct words from the k-th on, joined by single spaces.
RECURSIVE WordsFrom(_, _)
WordsFrom(k, n) ==
    IF n = 0 THEN <<>>
    ELSE IF n = 1 THEN Word(k)
    ELSE Word(k) \o <<32>> \o WordsFrom(k + 1, n - 1)

\* Paragraphs of counts[1], counts[2], ... distinct words, separated by one
\* blank line.
RECURSIVE ParagraphTextFrom(_, _)
ParagraphTextFrom(k, counts) ==
    IF Len(counts) = 0 THEN <<>>
    ELSE IF Len(counts) = 1 THEN WordsFrom(k, counts[1])
    ELSE WordsFrom(k, counts[1]) \o <<10, 10>> \o ParagraphTextFrom(k + counts[1], Tail(counts))

ParagraphText(counts) == ParagraphTextFrom(1, counts)

\* Fixed chunking example of the specification: 25 words, size 10.
FixedExampleText == WordsFrom(1, 25)
\* Structured chunking example of the specification: paragraphs of 12 and 8 words, size 10.
StructuredExampleText == ParagraphText(<<12, 8>>)

ParagraphCounts == UNION { [1..n -> 1..MaxParaWords] : n \in 1..MaxParas }

ChunkerTexts ==
    StringsUpTo(ChunkAlphabet, MaxTextLen)
        \cup { ParagraphText(c) : c \in ParagraphCounts }
        \cup { FixedExampleText, StructuredExampleText }

ChunkSizes == (1..MaxChunkSize) \cup {10}

\* 'a', space, newline, tab, ARABIC LETTER ALEF (0x0627), ARABIC COMMA (0x060C)
CleanAlphabet == {97, 32, 10, 9, 1575, 1548}

CleanTexts == StringsUpTo(CleanAlphabet, MaxCleanLen)

\* n words "a" separated by sep, as a sequence (built by index, not by recursion,
\* so that texts at the 50,000 word threshold can be built).
RepeatedWords(n, sep) ==
    IF n = 0 THEN <<>>
    ELSE SubSeq([i \in 1..(2 * n - 1) |-> IF i % 2 = 1 THEN 97 ELSE sep], 1, 2 * n - 1)

\* Byte sizes below, at and above the size threshold.
ClassifierSizes == {0, 1, 10 * 1024 * 1024 - 1, 10 * 1024 * 1024, 10 * 1024 * 1024 + 1}

(***************************************************************************)
(* SpecChunker: TextChunker's two strategies, each called on a drawn text   *)
(* and chunk size.                                                         *)
(***************************************************************************)
InitChunker ==
    /\ text \in ChunkerTexts
    /\ chunkSizeWords \in ChunkSizes
    /\ fileSize = 0
    /\ nWords = 0
    /\ op = "none"
    /\ ret = <<>>
    /\ chunkList = <<>>
    /\ NoRequest
    /\ NoClientCall

CallSplitIntoChunks ==
    /\ op = "none"
    /\ op' = "splitIntoChunks"
    /\ ret' = splitIntoChunks(text, chunkSizeWords)
    /\ UNCHANGED <<text, chunkSizeWords, fileSize, nWords, chunkList, reqVars, client>>

CallSplitWithStructurePreservation ==
    /\ op = "none"
    /\ op' = "splitWithStructurePreservation"
    /\ ret' = splitWithStructurePreservation(text, chunkSizeWords)
    /\ UNCHANGED <<text, chunkSizeWords, fileSize, nWords, chunkList, reqVars, client>>

NextChunker == CallSplitIntoChunks \/ CallSplitWithStructurePreservation

SpecChunker == InitChunker /\ [][NextChunker]_vars

(***************************************************************************)
(* SpecClean: clean (a fresh ArabicTextRemover, then cleanText) called on a *)
(* drawn text.                                                             *)
(***************************************************************************)
InitClean ==
    /\ text \in CleanTexts
    /\ chunkSizeWords = 0
    /\ fileSize = 0
    /\ nWords = 0
    /\ op = "none"
    /\ ret = [ok |-> FALSE, error |-> "not called"]
    /\ chunkList = <<>>
    /\ NoRequest
    /\ NoClientCall

CallClean ==
    /\ op = "none"
    /\ op' = "clean"
    /\ ret' = clean(text)
    /\ UNCHANGED <<text, chunkSizeWords, fileSize, nWords, chunkList, reqVars, client>>

NextClean == CallClean

SpecClean == InitClean /\ [][NextClean]_vars

(***************************************************************************)
(* SpecClassify: FileAnalyzer.getProcessingInfo called on a drawn byte size *)
(* and a text of nWords words.                                             *)
(***************************************************************************)
InitClassify ==
    /\ \/ /\ nWords \in 0..MaxSmallWords
          /\ fileSize \in ClassifierSizes
          /\ \E sep \in {32, 10, 9} : \E pad \in {<<>>, <<32>>, <<10, 10>>} :
                text = pad \o RepeatedWords(nWords, sep) \o pad
       \/ /\ nWords \in {LARGE_FILE_WORD_THRESHOLD, LARGE_FILE_WORD_THRESHOLD + 1}
          /\ fileSize \in {1, 10 * 1024 * 1024}
          /\ text = RepeatedWords(nWords, 32)
    /\ chunkSizeWords = 0
    /\ op = "none"
    /\ ret = [isLarge |-> FALSE, wordCount |-> 0, estimatedChunks |-> 0, fileSizeHundredthsMB |-> 0]
    /\ chunkList = <<>>
    /\ NoRequest
    /\ NoClientCall

CallGetProcessingInfo ==
    /\ op = "none"
    /\ op' = "getProcessingInfo"
    /\ ret' = getProcessingInfo(fileSize, text)
    /\ UNCHANGED <<text, chunkSizeWords, fileSize, nWords, chunkList, reqVars, client>>

NextClassify == CallGetProcessingInfo

SpecClassify == InitClassify /\ [][NextClassify]_vars

(***************************************************************************)
(* SpecMerge: the reassembly of route.ts:250 and 323,                       *)
(* cleanedChunks.join('\n\n--- CHUNK SEPARATOR ---\n\n'), called on a drawn *)
(* list of chunks.                                                         *)
(***************************************************************************)
\* "--- CHUNK SEPARATOR ---", the separator without its line breaks
SeparatorLine == SubSeq(ChunkSeparator, 3, Len(ChunkSeparator) - 2)

\* Chunks: empty, words, the separator's text in and at the end of a line, and
\* chunks with line breaks (the separator itself among them).
MergeChunkTexts ==
    { <<>>, <<97>>, <<97, 32, 98>>, <<45>>, SeparatorLine, <<97>> \o SeparatorLine,
      <<97, 10, 98>>, ChunkSeparator, <<97, 10, 10>> \o SeparatorLine }

InitMerge ==
    /\ chunkList \in UNION { [1..n -> MergeChunkTexts] : n \in 0..MaxChunks }
    /\ text = <<>>
    /\ chunkSizeWords = 0
    /\ fileSize = 0
    /\ nWords = 0
    /\ op = "none"
    /\ ret = <<>>
    /\ NoRequest
    /\ NoClientCall

CallMerge ==
    /\ op = "none"
    /\ op' = "merge"
    /\ ret' = join(chunkList, ChunkSeparator)
    /\ UNCHANGED <<text, chunkSizeWords, fileSize, nWords, chunkList, reqVars, client>>

NextMerge == CallMerge

SpecMerge == InitMerge /\ [][NextMerge]_vars

(***************************************************************************)
(* Spec: one POST /api/process-documents request, route.ts:370-492, while   *)
(* the remote service goes up and down.                                    *)
(***************************************************************************)
maxSize == 500 * 1024 * 1024
fallbackMaxSize == 100 * 1024 * 1024

\* The content-length header: -1 when the request has none.
ContentLengths ==
    {-1, fallbackMaxSize, fallbackMaxSize + 1, maxSize, maxSize + 1}

File(base, ext, size, content, extractFails, failAtWrite) ==
    [ isFile |-> TRUE, base |-> base, ext |-> ext, size |-> size, content |-> content,
      times |-> 1, extractFails |-> extractFails, failAtWrite |-> failAtWrite ]

\* The form entries a request is drawn from: text, PDF and Word documents, an
\* unsupported one, one above the size threshold, ones whose extraction or
\* first write fails, and a form field that is no file.
FormEntries ==
    { File("a", ".txt", 12, <<97, 32, 1575, 10, 10, 98>>, FALSE, 0),
      File("b", ".txt", 12, <<98, 1548, 32, 97>>, FALSE, 1),
      File("a", ".exe", 12, <<97>>, FALSE, 0),
      File("b", ".pdf", 12, <<97>>, TRUE, 0),
      File("b", ".docx", 12, <<97, 9, 98>>, FALSE, 0),
      File("a", ".txt", LARGE_FILE_SIZE_THRESHOLD + 1, <<97, 32, 98, 10, 10, 1575>>, FALSE, 0),
      [ isFile |-> FALSE, base |-> "field", ext |-> "", size |-> 0, content |-> <<>>,
        times |-> 1, extractFails |-> FALSE, failAtWrite |-> 0 ] }

Requests ==
    [ contentLength : ContentLengths,
      entries : UNION { [1..n -> FormEntries] : n \in 0..MaxDocs } ]

\* A text document below the size threshold and above the word threshold.
LargeByWordsFile ==
    [ File("c", ".txt", 2 * (LARGE_FILE_WORD_THRESHOLD + 1), <<97, 32>>, FALSE, 0)
        EXCEPT !.times = LARGE_FILE_WORD_THRESHOLD + 1 ]

\* Requests of one form entry, the document large by its words among them.
SingleEntryRequests ==
    [ contentLength : ContentLengths,
      entries : { <<e>> : e \in FormEntries \cup {LargeByWordsFile} } ]

InitFrom(requests) ==
    /\ request \in requests
    /\ serviceUp \in BOOLEAN
    /\ pc = "probe"
    /\ isPythonServiceAvailable = FALSE
    /\ next = 1
    /\ results = <<>>
    /\ routes = <<>>
    /\ uploads = <<>>
    /\ uidCounter = 0
    /\ response = [status |-> 0, body |-> <<>>, error |-> <<>>]
    /\ text = <<>>
    /\ chunkSizeWords = 0
    /\ fileSize = 0
    /\ nWords = 0
    /\ chunkList = <<>>
    /\ op = "none"
    /\ ret = <<>>
    /\ NoClientCall

Init == InitFrom(Requests)

\* route.ts:378: isServiceAvailable() answers whether GET /health succeeded.
ProbeService ==
    /\ pc = "probe"
    /\ isPythonServiceAvailable' = serviceUp
    /\ pc' = "preflight"
    /\ UNCHANGED <<request, serviceUp, next, results, routes, uploads, uidCounter, response, fnVars, client>>

\* (mutant of effectiveMaxSize: the limit of the remote route whatever the probe said)
effectiveMaxSizeIgnoresProbe == maxSize

\* route.ts:379
effectiveMaxSize == IF isPythonServiceAvailable THEN maxSize ELSE fallbackMaxSize

\* route.ts:382-391: Math.round(effectiveMaxSize / (1024 * 1024)) is exact, both
\* limits being whole numbers of MB.
RequestTooLarge ==
    [ status |-> 413, body |-> <<>>,
      error |-> << "Request too large. Maximum size is ", effectiveMaxSize \div (1024 * 1024), "MB ",
                   IF isPythonServiceAvailable THEN "with Python service"
                   ELSE "without Python service", "." >>,
      pythonServiceAvailable |-> isPythonServiceAvailable ]

\* route.ts:381-392
PreflightReject ==
    /\ pc = "preflight"
    /\ request.contentLength # -1 /\ request.contentLength > effectiveMaxSize
    /\ response' = RequestTooLarge
    /\ pc' = "done"
    /\ UNCHANGED <<request, serviceUp, isPythonServiceAvailable, next, results, routes, uploads,
                   uidCounter, fnVars, client>>

PreflightPass ==
    /\ pc = "preflight"
    /\ ~(request.contentLength # -1 /\ request.contentLength > effectiveMaxSize)
    /\ pc' = "formData"
    /\ UNCHANGED <<request, serviceUp, isPythonServiceAvailable, next, results, routes, uploads,
                   uidCounter, response, fnVars, client>>

\* the catch of route.ts:485-491
InternalError == [status |-> 500, body |-> <<>>, error |-> <<"Failed to process documents">>]

\* route.ts:394: request.formData() gives the entries ...
ParseFormData ==
    /\ pc = "formData"
    /\ pc' = "uploadsDir"
    /\ UNCHANGED <<request, serviceUp, isPythonServiceAvailable, next, results, routes, uploads,
                   uidCounter, response, fnVars, client>>

\* ... or throws on a body it cannot parse.
ParseFormDataThrows ==
    /\ pc = "formData"
    /\ response' = InternalError
    /\ pc' = "done"
    /\ UNCHANGED <<request, serviceUp, isPythonServiceAvailable, next, results, routes, uploads,
                   uidCounter, fnVars, client>>

\* route.ts:398-403: the uploads directory is there or is made ...
EnsureUploadsDir ==
    /\ pc = "uploadsDir"
    /\ pc' = "loop"
    /\ UNCHANGED <<request, serviceUp, isPythonServiceAvailable, next, results, routes, uploads,
                   uidCounter, response, fnVars, client>>

\* ... or fs.mkdir throws (a read-only file system).
EnsureUploadsDirThrows ==
    /\ pc = "uploadsDir"
    /\ response' = InternalError
    /\ pc' = "done"
    /\ UNCHANGED <<request, serviceUp, isPythonServiceAvailable, next, results, routes, uploads,
                   uidCounter, fnVars, client>>

\* route.ts:407: an entry that is no file under a key "file-..." is passed over.
SkipEntry ==
    /\ pc = "loop"
    /\ next <= Len(request.entries)
    /\ ~request.entries[next].isFile
    /\ next' = next + 1
    /\ UNCHANGED <<request, serviceUp, pc, isPythonServiceAvailable, results, routes, uploads,
                   uidCounter, response, fnVars, client>>

\* What one iteration of the loop leaves behind.
NotCalled == [ok |-> FALSE, error |-> <<"chunkFile was not called">>]

Effect(r, chunkFileOutcome) ==
    /\ results' = r.results
    /\ routes' = Append(routes, [ route |-> r.route,
                                  chunkFile |-> IF r.route = "Remote" THEN chunkFileOutcome
                                                ELSE NotCalled ])
    /\ uploads' = uploads \o r.written
    /\ uidCounter' = uidCounter + r.uids

\* route.ts:408-479 for the next file: the file's own probe sees the service as
\* it is now, and chunkFile ends one of the ways it can.
ProcessEntry ==
    /\ pc = "loop"
    /\ next <= Len(request.entries)
    /\ request.entries[next].isFile
    /\ \E outcome \in ChunkFileOutcomes :
          Effect(LoopBody(results, request.entries[next], isPythonServiceAvailable,
                          serviceUp, outcome, uidCounter),
                 IF serviceUp THEN outcome ELSE NotCalled)
    /\ next' = next + 1
    /\ UNCHANGED <<request, serviceUp, pc, isPythonServiceAvailable, response, fnVars, client>>

\* route.ts:483
Respond ==
    /\ pc = "loop"
    /\ next > Len(request.entries)
    /\ response' = [status |-> 200, body |-> results, error |-> <<>>]
    /\ pc' = "done"
    /\ UNCHANGED <<request, serviceUp, isPythonServiceAvailable, next, results, routes, uploads,
                   uidCounter, fnVars, client>>

\* The remote service goes down or comes up while the request is handled.
ServiceChanges ==
    /\ pc \notin {"idle", "done"}
    /\ serviceUp' = ~serviceUp
    /\ UNCHANGED <<request, pc, isPythonServiceAvailable, next, results, routes, uploads,
                   uidCounter, response, fnVars, client>>

Next ==
    \/ ProbeService
    \/ PreflightReject
    \/ PreflightPass
    \/ ParseFormData
    \/ ParseFormDataThrows
    \/ EnsureUploadsDir
    \/ EnsureUploadsDirThrows
    \/ SkipEntry
    \/ ProcessEntry
    \/ Respond
    \/ ServiceChanges

Spec == Init /\ [][Next]_vars

(***************************************************************************)
(* SpecRoute: the same handler on requests of one form entry, among them a  *)
(* document that is large by its word count only.                          *)
(***************************************************************************)
InitRoute == InitFrom(SingleEntryRequests)

SpecRoute == InitRoute /\ [][Next]_vars

(***************************************************************************)
(* SpecChunkFile: one call of chunkFile, python-service-client.ts:88-138,   *)
(* on a client built with 0 (nothing) to MaxRetries retries, the service    *)
(* answering each attempt as it likes.                                     *)
(***************************************************************************)
NoFunctionCall ==
    /\ text = <<>>
    /\ chunkList = <<>>
    /\ chunkSizeWords = 0
    /\ fileSize = 0
    /\ nWords = 0
    /\ op = "none"
    /\ ret = <<>>

InitChunkFile ==
    /\ \E configRetries \in 0..MaxRetries : \E name \in {<<"a", ".txt">>, <<"b", ".pdf">>} :
          client = CalledClient("chunkFile", configRetries, <<name>>)
    /\ NoFunctionCall
    /\ NoRequest

\* lines 93-100
CallChunkFile ==
    /\ client.pc = "called"
    /\ client.op = "chunkFile"
    /\ client' = ChunkFileStarts(client, 1)
    /\ UNCHANGED <<fnVars, reqVars>>

\* lines 100-134: one attempt, answered one of the ways the service can
Attempt ==
    /\ client.pc = "attempt"
    /\ \E answer \in ChunkFileResponses(client.files[client.index]) :
          client' = AfterAttempt(Called(client, AttemptOutcome(answer)), AttemptOutcome(answer))
    /\ UNCHANGED <<fnVars, reqVars>>

\* lines 130-131 and the attempt++ of line 100: the delay has passed
Backoff ==
    /\ client.pc = "backoff"
    /\ client' = [ client EXCEPT !.waits = Append(@, backoffDelay(client.attempt)),
                                 !.attempt = @ + 1,
                                 !.pc = "attempt" ]
    /\ UNCHANGED <<fnVars, reqVars>>

NextChunkFile == CallChunkFile \/ Attempt \/ Backoff

SpecChunkFile == InitChunkFile /\ [][NextChunkFile]_vars

(***************************************************************************)
(* SpecChunkMany: one call of chunkMultipleFiles, lines 143-200, on 0 to    *)
(* MaxBatch files.                                                         *)
(***************************************************************************)
BatchFiles(n) == [i \in 1..n |-> <<"doc", i, ".txt">>]

InitChunkMany ==
    /\ \E configRetries \in 1..MaxBatchRetries : \E n \in 0..MaxBatch :
          client = CalledClient("chunkMultipleFiles", configRetries, BatchFiles(n))
    /\ NoFunctionCall
    /\ NoRequest

\* lines 148-178
CallChunkMultipleFiles ==
    /\ client.pc = "called"
    /\ client.op = "chunkMultipleFiles"
    /\ client' = EnterChunkMultipleFiles(client)
    /\ UNCHANGED <<fnVars, reqVars>>

\* lines 179-195: the call of /chunk-multiple, answered one of the ways the
\* service can
BatchCall ==
    /\ client.pc = "batch"
    /\ \E answer \in ChunkMultipleResponses(client.files) :
          client' = AfterBatchCall(client, BatchOutcome(answer))
    /\ UNCHANGED <<fnVars, reqVars>>

\* lines 194-199: the catch answers by calling chunkMultipleFiles again with the
\* same files (line 198)
FallBack ==
    /\ client.pc = "caught"
    /\ client' = EnterChunkMultipleFiles(client)
    /\ UNCHANGED <<fnVars, reqVars>>

NextChunkMany == CallChunkMultipleFiles \/ BatchCall \/ FallBack \/ Attempt \/ Backoff

SpecChunkMany == InitChunkMany /\ [][NextChunkMany]_vars

\* The same call on a runtime that keeps running the method while it has a
\* step to take.
SpecChunkManyFair == InitChunkMany /\ [][NextChunkMany]_vars /\ WF_vars(NextChunkMany)

(***************************************************************************)
(* Notions the properties are stated in.                                   *)
(***************************************************************************)
\* The white-space-delimited words of s, by one scan from left to right: cur is
\* the word being read, acc the words read.
RECURSIVE ScanWords(_, _, _, _)
ScanWords(s, i, cur, acc) ==
    IF i > Len(s) THEN (IF Len(cur) > 0 THEN Append(acc, cur) ELSE acc)
    ELSE IF IsWhiteSpace(s[i])
         THEN ScanWords(s, i + 1, <<>>, IF Len(cur) > 0 THEN Append(acc, cur) ELSE acc)
         ELSE ScanWords(s, i + 1, Append(cur, s[i]), acc)

TheWords(s) == ScanWords(s, 1, <<>>, <<>>)

\* The word sequence of each string of a list, and their lengths.
WordsOfEach(strings) == [j \in 1..Len(strings) |-> TheWords(strings[j])]
WordCountOfEach(strings) == [j \in 1..Len(strings) |-> Len(TheWords(strings[j]))]

\* The paragraphs of s that hold a word, each as its word sequence.
ParagraphWords(s) == SelectSeq(WordsOfEach(SplitBlankLines(s)), NonEmptyString)

\* Total length of the first k sequences of a list.
RECURSIVE LenOfFirst(_, _)
LenOfFirst(seqs, k) == IF k = 0 THEN 0 ELSE LenOfFirst(seqs, k - 1) + Len(seqs[k])

\* The code points clean is to remove: Arabic letters, diacritics, punctuation.
InRemovedRanges(c) ==
    \/ \E k \in 1..Len(arabicRanges) : arabicRanges[k][1] <= c /\ c <= arabicRanges[k][2]
    \/ Matches(diacriticsPattern, c)
    \/ Matches(arabicPunctuation, c)

CodePoints(s) == { s[i] : i \in 1..Len(s) }

\* The submitted documents of the request: its file entries, in order.
Documents(entries) == SelectSeq(entries, LAMBDA e : e.isFile)

NamesOfDocuments(entries) ==
    [i \in 1..Len(Documents(entries)) |-> FileName(Documents(entries)[i])]

NamesOfOutcomes(outcomes) == [i \in 1..Len(outcomes) |-> outcomes[i].originalName]

StatusOfOutcomes(outcomes) == [i \in 1..Len(outcomes) |-> outcomes[i].status]

IsHealthyTextDocument(file) ==
    /\ file.isFile /\ file.ext = ".txt"
    /\ file.size <= 10 * 1024 * 1024
    /\ ~file.extractFails /\ file.failAtWrite = 0

HasUnsupportedFormat(file) == file.isFile /\ file.ext \notin {".txt", ".pdf", ".docx"}

C2_FailureStaysWithItsDocument ==
    (pc = "done" /\ response.status = 200) =>
        LET docs == Documents(request.entries)
            out == response.body
        IN /\ Len(out) = Len(docs)
           /\ \A i \in 1..Len(docs) :
                 (HasUnsupportedFormat(docs[i]) \/ docs[i].extractFails) =>
                     /\ out[i].status = "error"
                     /\ out[i].originalName = FileName(docs[i])
                     /\ Len(out[i].error) > 0
           /\ ( /\ Len(docs) = 3
                /\ IsHealthyTextDocument(docs[1])
                /\ HasUnsupportedFormat(docs[2])
                /\ IsHealthyTextDocument(docs[3]) )
                 => StatusOfOutcomes(out) = <<"success", "error", "success">>

(***************************************************************************)
(* C3 (as claimed; refuted): clean is total - for every input string,       *)
(* building the Arabic range matcher and applying cleanText returns a       *)
(* string and never raises an error.                                       *)
(***************************************************************************)
C3_CleanIsTotal == op = "clean" => ret.ok

(***************************************************************************)
(* C4 (as claimed; refuted): clean is idempotent - clean(s) is a string     *)
(* and cleaning it again gives the same string.                            *)
(***************************************************************************)
C4_CleanIsIdempotent == op = "clean" => (ret.ok /\ clean(ret.value) = ret)

(***************************************************************************)
(* C5 (as claimed; refuted): clean(s) is a string whose every code point    *)
(* occurs in s and lies outside the removed Arabic ranges.                  *)
(***************************************************************************)
C5_CleanAddsNoCodePoint ==
    op = "clean" =>
        /\ ret.ok
        /\ \A c \in CodePoints(ret.value) : c \in CodePoints(text) /\ ~InRemovedRanges(c)

(***************************************************************************)
(* C6 (as claimed; refuted): clean preserves paragraph structure - the      *)
(* output has the paragraphs of the input (those left with a word once the  *)
(* Arabic code points are gone), separated by exactly one blank line, the   *)
(* words of a paragraph separated by one space, nothing before or after.    *)
(***************************************************************************)
C6_CleanKeepsParagraphs ==
    op = "clean" =>
        /\ ret.ok
        /\ LET paragraphs == ParagraphWords(SelectSeq(text, LAMBDA c : ~InRemovedRanges(c)))
           IN ret.value = join([k \in 1..Len(paragraphs) |-> join(paragraphs[k], <<32>>)],
                               <<10, 10>>)

(***************************************************************************)
(* C7: for both chunking strategies, the words of the returned chunks, in   *)
(* chunk order, are exactly the word sequence of the input text.            *)
(***************************************************************************)
C7_ChunksKeepTheWordSequence ==
    op \in {"splitIntoChunks", "splitWithStructurePreservation"} =>
        Flatten(WordsOfEach(ret)) = TheWords(text)

\* C7 witness: a text cut into several chunks, one of them of several words.
C7_Witness ==
    /\ op = "splitWithStructurePreservation"
    /\ Len(ret) >= 2
    /\ \E j \in 1..Len(ret) : Len(TheWords(ret[j])) >= 2
    /\ Flatten(WordsOfEach(ret)) = TheWords(text)

(***************************************************************************)
(* C8: the structured strategy never fragments a paragraph - every          *)
(* paragraph's words lie, whole and in place, in one chunk - and paragraphs *)
(* of 12 and 8 words with size 10 give chunks of 12 and 8 words.            *)
(***************************************************************************)
C8_ParagraphsAreNeverFragmented ==
    op = "splitWithStructurePreservation" =>
        LET P == ParagraphWords(text)
            C == WordsOfEach(ret)
        IN /\ \A k \in 1..Len(P) :
                \E j \in 1..Len(C) :
                    LET off == LenOfFirst(P, k - 1) - LenOfFirst(C, j - 1)
                    IN /\ off >= 0
                       /\ off + Len(P[k]) <= Len(C[j])
                       /\ SubSeq(C[j], off + 1, off + Len(P[k])) = P[k]
           /\ (text = StructuredExampleText /\ chunkSizeWords = 10)
                 => WordCountOfEach(ret) = <<12, 8>>

\* C8 witness: the 12 word paragraph became one oversized chunk.
C8_Witness ==
    /\ op = "splitWithStructurePreservation"
    /\ text = StructuredExampleText
    /\ chunkSizeWords = 10
    /\ WordCountOfEach(ret) = <<12, 8>>

(***************************************************************************)
(* C9: the fixed-size strategy, on W >= 1 words with size S, returns        *)
(* ceil(W / S) chunks, all of S words but the last, which has 1..S words;   *)
(* 25 words with size 10 give 10, 10 and 5 words.                           *)
(***************************************************************************)
C9_FixedChunkCountAndSizes ==
    (op = "splitIntoChunks" /\ Len(TheWords(text)) >= 1) =>
        LET W == Len(TheWords(text))
            S == chunkSizeWords
            counts == WordCountOfEach(ret)
        IN /\ Len(ret) = (W + S - 1) \div S
           /\ \A j \in 1..(Len(ret) - 1) : counts[j] = S
           /\ counts[Len(ret)] >= 1 /\ counts[Len(ret)] <= S
           /\ (text = FixedExampleText /\ S = 10) => counts = <<10, 10, 5>>

\* C9 witness: the 25 word text cut with size 10.
C9_Witness ==
    /\ op = "splitIntoChunks"
    /\ text = FixedExampleText
    /\ chunkSizeWords = 10
    /\ WordCountOfEach(ret) = <<10, 10, 5>>

IsLargeDocument(file) == getProcessingInfo(file.size, TextOf(file)).isLarge

C11_LargeGoesRemoteWhenAvailable ==
    \A i \in 1..Len(routes) :
        (isPythonServiceAvailable /\ IsLargeDocument(Documents(request.entries)[i]))
            => routes[i].route = "Remote"

(***************************************************************************)
(* C12 (as claimed; refuted): a document that is not large is processed as  *)
(* a single chunk - exactly one cleaned text artifact is written for it, no *)
(* chunk file and no archive, and its Success outcome has no archive        *)
(* reference.  Stated for the answered requests whose documents are all     *)
(* small text documents that no stage fails on.                            *)
(***************************************************************************)
IsCleanedTextArtifact(artifact, file) ==
    /\ artifact.name[1] = file.base
    /\ artifact.name[2] = "_cleaned_"
    /\ artifact.name[5] = ".txt"

C12_SmallDocumentIsOneChunk ==
    ( /\ pc = "done" /\ response.status = 200
      /\ \A i \in 1..Len(request.entries) :
            /\ IsHealthyTextDocument(request.entries[i])
            /\ ~IsLargeDocument(request.entries[i]) )
    => /\ Len(uploads) = Len(request.entries)
       /\ \A i \in 1..Len(request.entries) :
             /\ IsCleanedTextArtifact(uploads[i], request.entries[i])
             /\ routes[i].route = "LocalSingleChunk"
             /\ response.body[i].status = "success"
             /\ "zipUrl" \notin DOMAIN response.body[i]

(***************************************************************************)
(* C13 (as claimed; refuted): when a probe finds the remote service         *)
(* unavailable, a large document is chunked locally instead and the         *)
(* unavailability is not surfaced as the document's error, also when the    *)
(* service goes down between the request's probe and the document's own:    *)
(* no outcome carries the unavailability of the service as its error.       *)
(***************************************************************************)
ServiceUnavailableMessage ==
    <<"Python chunking service is not available. Please ensure the service is running.">>

C13_UnavailabilityIsNotSurfaced ==
    \A i \in 1..Len(results) :
        "error" \in DOMAIN results[i] => results[i].error # ServiceUnavailableMessage

(***************************************************************************)
(* C14: a request whose declared content length exceeds the limit in force  *)
(* (500 MB when the probe of the service succeeded, 100 MB otherwise) is    *)
(* answered 413 with one size-limit error as soon as the probe and the      *)
(* check are done: no form entry is looked at, no outcome is produced, no   *)
(* artifact is written and no document is handed to any route.             *)
(***************************************************************************)
C14_OversizedRequestIsRejectedBeforeParsing ==
    ( /\ pc \notin {"probe", "preflight"}
      /\ request.contentLength >
            (IF isPythonServiceAvailable THEN 500 * 1024 * 1024 ELSE 100 * 1024 * 1024) )
    => /\ pc = "done"
       /\ response.status = 413
       /\ response.body = <<>>
       /\ response.error[1] = "Request too large. Maximum size is "
       /\ response.error[2] = (IF isPythonServiceAvailable THEN 500 ELSE 100)
       /\ next = 1 /\ results = <<>> /\ routes = <<>> /\ uploads = <<>> /\ uidCounter = 0

\* C14 witness: a request of at least one document declaring 100 MB + 1 byte,
\* rejected while the service is unavailable.
C14_Witness ==
    /\ pc = "done"
    /\ response.status = 413
    /\ ~isPythonServiceAvailable
    /\ request.contentLength = 100 * 1024 * 1024 + 1
    /\ Len(Documents(request.entries)) >= 1

(***************************************************************************)
(* C15: chunkFile with retries = R - if the first k attempts fail (k < R)   *)
(* and attempt k+1 is answered, chunkFile has returned that answer after    *)
(* exactly k+1 attempts and exactly k waits (of 1 s, 2 s, 4 s, ..., at most *)
(* 10 s), and makes no further call.  An attempt fails when fetch throws,   *)
(* the status is not ok, or the answer is a failure with a message.         *)
(***************************************************************************)
FirstAttemptsFail(k) == \A j \in 1..k : ~client.calls[j].ok

C15_ReturnsFirstAnswerAfterKWaits ==
    client.op = "chunkFile" =>
        \A k \in 0..(client.retries - 1) :
            (Len(client.calls) > k /\ FirstAttemptsFail(k) /\ client.calls[k + 1].ok)
            => /\ client.pc = "done"
               /\ client.ret = client.calls[k + 1]
               /\ Len(client.calls) = k + 1
               /\ client.waits = [j \in 1..k |-> IF j <= 4 THEN 1000 * 2 ^ (j - 1) ELSE 10000]

\* C15 witness: retries = 3, two failed attempts, the third answered with
\* chunks, after waits of 1 s and 2 s.
C15_Witness ==
    /\ client.op = "chunkFile"
    /\ client.retries = 3
    /\ client.pc = "done"
    /\ client.ret.ok /\ client.ret.value.success
    /\ Len(client.calls) = 3
    /\ client.waits = <<1000, 2000>>

(***************************************************************************)
(* C16: chunkFile with retries = R >= 1 (3 when the client was built with   *)
(* none) against a service that fails every attempt makes exactly R         *)
(* attempts and R - 1 waits, none after the last attempt, and then throws   *)
(* "Failed to chunk file after R attempts: " followed by the message of     *)
(* the last attempt's failure; it never makes more than R attempts.         *)
(***************************************************************************)
C16_FailsAfterExactlyRAttempts ==
    client.op = "chunkFile" =>
        /\ client.retries >= 1
        /\ client.retries = (IF client.configRetries = 0 THEN 3 ELSE client.configRetries)
        /\ Len(client.calls) <= client.retries
        /\ (Len(client.calls) >= client.retries /\ FirstAttemptsFail(client.retries))
            => /\ client.pc = "done"
               /\ ~client.ret.ok
               /\ Len(client.waits) = client.retries - 1
               /\ client.ret.error =
                     <<"Failed to chunk file after ", client.retries, " attempts: ">>
                        \o client.calls[client.retries].error

\* C16 witness: the default of three retries, every attempt failed, the last
\* failure another one than the one before.
C16_Witness ==
    /\ client.op = "chunkFile"
    /\ client.configRetries = 0
    /\ client.pc = "done"
    /\ ~client.ret.ok
    /\ Len(client.calls) = 3
    /\ Len(client.waits) = 2
    /\ client.calls[2].error # client.calls[3].error

(***************************************************************************)
(* C17 (as claimed; refuted): chunkMultipleFiles on 1 to 5 files makes one  *)
(* combined call and, if that call fails, calls chunkFile once per file in  *)
(* input order and returns one result per file.                            *)
(***************************************************************************)
C17_FailedBatchFallsBackToEachFile ==
    ( /\ client.op = "chunkMultipleFiles"
      /\ Len(client.files) \in 1..5
      /\ client.batchFailures >= 1 )
    => /\ client.pc # "batch"
       /\ client.pc = "done" =>
             /\ [i \in 1..Len(client.invoked) |-> client.invoked[i].file] = client.files
             /\ client.ret.ok /\ Len(client.ret.value) = Len(client.files)

(***************************************************************************)
(* C18: chunkMultipleFiles on more than 5 files returns exactly one result  *)
(* per file in input order: what chunkFile returned for the file, or, when  *)
(* chunkFile exhausted its retries on it, a result with success = false,    *)
(* the file's name and the error's message - whatever happened to the other *)
(* files.  While the loop runs, the results so far are those of the files   *)
(* passed.                                                                 *)
(***************************************************************************)
ResultOf(invocation) ==
    IF invocation.outcome.ok THEN invocation.outcome.value
    ELSE [ success |-> FALSE, file_name |-> invocation.file,
           error |-> invocation.outcome.error, error_type |-> "ProcessingError" ]

C18_OneResultPerFileOfALargeBatch ==
    (client.op = "chunkMultipleFiles" /\ Len(client.files) > 5 /\ client.pc # "called") =>
        /\ Len(client.results) = Len(client.invoked)
        /\ \A i \in 1..Len(client.invoked) :
              /\ client.invoked[i].file = client.files[i]
              /\ client.results[i] = ResultOf(client.invoked[i])
              /\ client.results[i].file_name = client.files[i]
              /\ ~client.invoked[i].outcome.ok =>
                    /\ client.invoked[i].outcome.error[1] = "Failed to chunk file after "
                    /\ ~client.results[i].success
        /\ client.pc = "done" =>
              /\ client.ret = Return(client.results)
              /\ Len(client.results) = Len(client.files)

\* C18 witness: six files, the second of which exhausted its retries while the
\* first and the third were chunked.
C18_Witness ==
    /\ client.op = "chunkMultipleFiles"
    /\ client.pc = "done"
    /\ Len(client.files) = 6
    /\ Len(client.ret.value) = 6
    /\ client.ret.value[1].success
    /\ ~client.ret.value[2].success /\ ~client.invoked[2].outcome.ok
    /\ client.ret.value[3].success

(***************************************************************************)
(* C19 (as claimed; refuted): joining a list of cleaned chunks with the     *)
(* chunk separator and splitting the merged text on that separator gives    *)
(* back the same list, the empty list and lists with empty chunks included. *)
(* A cleaned chunk is a text as cleanText returns it: trimmed and without   *)
(* line breaks or tabs.                                                    *)
(***************************************************************************)
\* s.indexOf(sep, from): the first position from `from` on where sep occurs in
\* s, 0 when there is none.
RECURSIVE IndexOfFrom(_, _, _)
IndexOfFrom(s, sep, from) ==
    IF from + Len(sep) - 1 > Len(s) THEN 0
    ELSE IF SubSeq(s, from, from + Len(sep) - 1) = sep THEN from
    ELSE IndexOfFrom(s, sep, from + 1)

\* s.split(sep) for a non-empty sep: the pieces between the occurrences of sep
\* found from left to right; the empty string splits into one empty piece.
RECURSIVE SplitOnFrom(_, _, _)
SplitOnFrom(s, sep, from) ==
    IF IndexOfFrom(s, sep, from) = 0 THEN << SubSeq(s, from, Len(s)) >>
    ELSE << SubSeq(s, from, IndexOfFrom(s, sep, from) - 1) >>
            \o SplitOnFrom(s, sep, IndexOfFrom(s, sep, from) + Len(sep))

SplitOn(s, sep) == SplitOnFrom(s, sep, 1)

HasNoLineBreak(s) == \A i \in 1..Len(s) : s[i] # 10

IsCleanedText(s) == s = trim(s) /\ \A i \in 1..Len(s) : s[i] \notin {10, 9, 13}

C19_MergeThenSplitRoundTrips ==
    (op = "merge" /\ \A i \in 1..Len(chunkList) : IsCleanedText(chunkList[i]))
        => SplitOn(ret, ChunkSeparator) = chunkList

(***************************************************************************)
(* C19 (amended): joining a non-empty list of chunks none of which contains *)
(* a line break with the chunk separator and splitting the merged text on   *)
(* that separator gives back the same list, lists with empty chunks         *)
(* included; the empty list merges to the empty text, which splits into     *)
(* one empty chunk.                                                        *)
(***************************************************************************)
C19_MergeThenSplitRoundTripsOnNonEmptyLists ==
    op = "merge" =>
        /\ (Len(chunkList) >= 1 /\ \A i \in 1..Len(chunkList) : HasNoLineBreak(chunkList[i]))
              => SplitOn(ret, ChunkSeparator) = chunkList
        /\ Len(chunkList) = 0 => (ret = <<>> /\ SplitOn(ret, ChunkSeparator) = << <<>> >>)

\* C19 witness: three chunks, the second empty and the third the separator's
\* own text, merged and split back.
C19_Witness ==
    /\ op = "merge"
    /\ Len(chunkList) = 3
    /\ chunkList[1] = <<97, 32, 98>>
    /\ chunkList[2] = <<>>
    /\ chunkList[3] = SeparatorLine
    /\ Len(ret) = 3 + 2 * Len(ChunkSeparator) + Len(SeparatorLine)
    /\ SplitOn(ret, ChunkSeparator) = chunkList

(***************************************************************************)
(* C20 (as claimed; refuted): for a document whose chunker returned chunks  *)
(* c1..cn (and whose writes succeed), the merged artifact written consists  *)
(* of clean(c1), ..., clean(cn) in that order, joined by the chunk          *)
(* separator, and the i-th chunk entry of the archive holds clean(ci).      *)
(***************************************************************************)
IsMergedArtifactOf(artifact, file) ==
    artifact.name[1] = file.base /\ artifact.name[2] = "_cleaned_merged_"

IsArchiveOf(artifact, file) ==
    artifact.name[1] = file.base /\ artifact.name[5] = ".zip"

CleanedInOrder(chunks, merged, archive) ==
    /\ \A k \in 1..Len(chunks) :
          /\ clean(chunks[k].content).ok
          /\ Len(archive.content) > k
          /\ archive.content[k].content = clean(chunks[k].content).value
    /\ merged.content = join([k \in 1..Len(chunks) |-> clean(chunks[k].content).value],
                             ChunkSeparator)

C20_ChunkOrderIsKept ==
    \A i \in 1..Len(routes) :
        ( /\ routes[i].chunkFile.ok
          /\ routes[i].chunkFile.value.success
          /\ Len(routes[i].chunkFile.value.chunks) >= 1
          /\ Documents(request.entries)[i].failAtWrite = 0 )
        => \E m \in 1..Len(uploads) : \E z \in 1..Len(uploads) :
              /\ IsMergedArtifactOf(uploads[m], Documents(request.entries)[i])
              /\ IsArchiveOf(uploads[z], Documents(request.entries)[i])
              /\ CleanedInOrder(routes[i].chunkFile.value.chunks, uploads[m], uploads[z])

(***************************************************************************)
(* C21 (as claimed; refuted): every route that produces chunked output names *)
(* its artifacts alike - the chunk files "<base>_chunk_<n>_<uid>.txt" with n *)
(* the chunk's 1-based position, then the merged file                       *)
(* "<base>_cleaned_merged_<uid>.txt" and the archive                        *)
(* "<base>_cleaned_chunks_<uid>.zip".  Stated for the large text documents  *)
(* no write fails on: one the remote service returned chunks for, or one    *)
(* handled while the service is unavailable.                                *)
(***************************************************************************)
FollowsChunkedNaming(written, base) ==
    /\ Len(written) >= 2
    /\ \A k \in 1..(Len(written) - 2) :
          /\ written[k].name[1] = base
          /\ written[k].name[2] = "_chunk_"
          /\ written[k].name[3] = k
          /\ written[k].name[5] = ".txt"
    /\ written[Len(written) - 1].name[1] = base
    /\ written[Len(written) - 1].name[2] = "_cleaned_merged_"
    /\ written[Len(written) - 1].name[5] = ".txt"
    /\ written[Len(written)].name[1] = base
    /\ written[Len(written)].name[2] = "_cleaned_chunks_"
    /\ written[Len(written)].name[5] = ".zip"

ProducesChunkedOutput(file, routed) ==
    /\ file.ext = ".txt" /\ ~file.extractFails /\ file.failAtWrite = 0
    /\ IsLargeDocument(file)
    /\ \/ /\ routed.route = "Remote"
          /\ routed.chunkFile.ok
          /\ routed.chunkFile.value.success
          /\ Len(routed.chunkFile.value.chunks) >= 1
       \/ /\ routed.route # "Remote"
          /\ ~isPythonServiceAvailable

C21_ChunkedArtifactsAreNamedAlike ==
    \A i \in 1..Len(routes) :
        ProducesChunkedOutput(Documents(request.entries)[i], routes[i])
        => \E lo \in 1..Len(uploads) : \E hi \in lo..Len(uploads) :
              FollowsChunkedNaming(SubSeq(uploads, lo, hi), Documents(request.entries)[i].base)

(***************************************************************************)
(* C22 (as claimed; refuted): every artifact written to the uploads          *)
(* directory has a name with a freshly drawn unique suffix, so no two writes *)
(* target the same name, even for documents of the same base name.  Stated  *)
(* for the answered requests of two or more text documents of one base name *)
(* that no stage fails on: each gets its artifacts, under names that differ *)
(* pairwise.                                                               *)
(***************************************************************************)
HasFreshSuffix(artifact) == artifact.name[4] \in 1..uidCounter

HttpStatuses == 200..599

HealthResponses ==
    [ kind : {"response"}, status : HttpStatuses ]
    \cup { [ kind |-> "fetch throws", status |-> 0 ],
           [ kind |-> "timeout", status |-> 0 ] }

\* Response.ok of the fetch API: the status is in the range 200-299
ResponseOk(status) == status >= 200 /\ status <= 299

\* (mutant of isServiceAvailable: without the catch of lines 57-60)
isServiceAvailableWithoutCatch(answer) ==
    IF answer.kind = "response" THEN Return(ResponseOk(answer.status))
    ELSE Throw(<<answer.kind>>)

\* lines 50-61
isServiceAvailable(answer) ==
    IF answer.kind = "response" THEN Return(ResponseOk(answer.status))
    ELSE Return(FALSE)

InitProbe ==
    /\ client = CalledClient("isServiceAvailable", 0, <<>>)
    /\ NoFunctionCall
    /\ NoRequest

CallIsServiceAvailable ==
    /\ client.pc = "called"
    /\ client.op = "isServiceAvailable"
    /\ \E answer \in HealthResponses :
          client' = [ client EXCEPT !.pc = "done", !.calls = <<answer>>,
                                    !.ret = isServiceAvailable(answer) ]
    /\ UNCHANGED <<fnVars, reqVars>>

NextProbe == CallIsServiceAvailable

SpecProbe == InitProbe /\ [][NextProbe]_vars

(***************************************************************************)
(* C23: isServiceAvailable never throws - whatever the health endpoint      *)
(* does (a success status, another status, a network error, a timeout) it   *)
(* returns a boolean, which is true exactly when the endpoint answered with *)
(* a success status (2xx).                                                  *)
(***************************************************************************)
C23_ProbeReturnsABoolean ==
    (client.op = "isServiceAvailable" /\ client.pc = "done") =>
        /\ client.ret.ok
        /\ client.ret.value \in BOOLEAN
        /\ client.ret.value <=> ( /\ client.calls[1].kind = "response"
                                  /\ client.calls[1].status \in 200..299 )

C23_Witness ==
    /\ client.op = "isServiceAvailable" /\ client.pc = "done"
    /\ client.calls[1].kind = "timeout"
    /\ client.ret = Return(FALSE)

(***************************************************************************)
(* C24: in chunkFile the wait after failed attempt n (1 <= n < R) is         *)
(* min(1000 * 2^(n-1), 10000) ms - 1 s after the first failure, twice the   *)
(* previous wait after each further failure, and never more than 10 s; no   *)
(* wait follows the last attempt.                                          *)
(***************************************************************************)
C24_BackoffDoublesUpToTenSeconds ==
    (client.op = "chunkFile") =>
        /\ Len(client.waits) <= client.retries - 1
        /\ Len(client.waits) <= Len(client.calls)
        /\ \A n \in 1..Len(client.waits) :
              /\ ~client.calls[n].ok
              /\ client.waits[n] <= 10000
              /\ n = 1 => client.waits[n] = 1000
              /\ n > 1 => client.waits[n] = IF 2 * client.waits[n - 1] <= 10000
                                            THEN 2 * client.waits[n - 1]
                                            ELSE 10000

C24_Witness ==
    /\ client.op = "chunkFile"
    /\ client.waits = <<1000, 2000, 4000, 8000, 10000>>

(***************************************************************************)
(* C25 (as claimed; refuted): chunkMultipleFiles terminates - on every       *)
(* non-empty batch and whatever the service does, a /chunk-multiple          *)
(* endpoint that fails on every call included, it eventually returns a      *)
(* result list.  The runtime keeps running the method (the fairness of       *)
(* SpecChunkManyFair).                                                      *)
(***************************************************************************)
C25_ChunkManyTerminates ==
    (client.op = "chunkMultipleFiles" /\ Len(client.files) >= 1) ~> (client.pc = "done")

NoBlankLineGivesAtMostOneChunk ==
    (op = "splitWithStructurePreservation" /\ Len(SplitBlankLines(text)) <= 1)
        => Len(ret) <= 1

(***************************************************************************)
(* C27: for every text and size >= 1, every chunk the structured strategy    *)
(* returns holds at least one word, and every chunk that holds two or more  *)
(* non-empty paragraphs has at most size words - only a chunk of a single   *)
(* non-empty paragraph can exceed size.                                     *)
(***************************************************************************)
C27_OnlyASingleParagraphExceedsSize ==
    (op = "splitWithStructurePreservation" /\ chunkSizeWords >= 1) =>
        \A j \in 1..Len(ret) :
            /\ Len(TheWords(ret[j])) >= 1
            /\ Len(ParagraphWords(ret[j])) >= 2 => Len(TheWords(ret[j])) <= chunkSizeWords

\* C27 witness: paragraphs of 1, 1 and 2 words with size 2; the first chunk
\* holds the first two paragraphs and is full.
C27_Witness ==
    /\ op = "splitWithStructurePreservation"
    /\ text = ParagraphText(<<1, 1, 2>>)
    /\ chunkSizeWords = 2
    /\ Len(ret) = 2
    /\ Len(ParagraphWords(ret[1])) = 2
    /\ WordCountOfEach(ret) = <<2, 2>>

(***************************************************************************)
(* C28: on the remote route a Success outcome is emitted only if the         *)
(* response chunkFile returned reported success = true.  A document whose   *)
(* response has success = false - without an error message (chunkFile        *)
(* returns it, with or without chunks) or with one (chunkFile throws it,    *)
(* its retries exhausted) - ends in an Error outcome carrying the failure.  *)
(***************************************************************************)
RemoteFailureMessage(chunkFileOutcome) ==
    IF ~chunkFileOutcome.ok THEN chunkFileOutcome.error
    ELSE IF Len(chunkFileOutcome.value.error) > 0 THEN chunkFileOutcome.value.error
    ELSE <<"Python service failed to process file">>

C28_NoSuccessWithoutRemoteSuccess ==
    \A i \in 1..Len(routes) :
        (routes[i].route = "Remote" /\ routes[i].chunkFile # NotCalled) =>
            /\ results[i].status = "success"
                  => (routes[i].chunkFile.ok /\ routes[i].chunkFile.value.success)
            /\ (~routes[i].chunkFile.ok \/ ~routes[i].chunkFile.value.success)
                  => /\ results[i].status = "error"
                     /\ results[i].originalName = FileName(Documents(request.entries)[i])
                     /\ results[i].error = RemoteFailureMessage(routes[i].chunkFile)

\* C28 witness: the response has success = false, no error message and a
\* chunk; the document's outcome is the Error of line 227.
C28_Witness ==
    /\ Len(routes) >= 1
    /\ routes[1].route = "Remote"
    /\ routes[1].chunkFile.ok
    /\ ~routes[1].chunkFile.value.success
    /\ Len(routes[1].chunkFile.value.chunks) = 1
    /\ results[1].status = "error"
    /\ results[1].error = <<"Python service failed to process file">>

(***************************************************************************)
(* C29 (as claimed; refuted): the Success outcome of a large document, on    *)
(* the remote and on the local fallback route, reports as its chunk count   *)
(* the number of cleaned chunks written as chunk files and packaged in the  *)
(* archive.  Stated for the large text documents no write fails on (one the *)
(* remote service returned chunks for, or one handled while the service is  *)
(* unavailable): each gets such a Success outcome.                          *)
(***************************************************************************)
\* written: chunk files, then the merged file, then the archive, whose entries
\* are the chunks and the merged text
IsChunkedOutputOf(written, outcome) ==
    /\ Len(written) >= 2
    /\ written[Len(written)].name = outcome.zipUrl
    /\ written[Len(written) - 1].name = outcome.cleanedUrl
    /\ \A k \in 1..(Len(written) - 2) : written[k].name[2] = "_chunk_"
    /\ outcome.chunks = Len(written) - 2
    /\ outcome.chunks = Len(written[Len(written)].content) - 1

HasReference(outcome, field) ==
    field \in DOMAIN outcome /\ Len(outcome[field]) > 0

IsWellFormedOutcome(outcome) ==
    /\ outcome.status \in {"success", "error"}
    /\ outcome.status = "success" =>
          /\ HasReference(outcome, "cleanedUrl")
          /\ HasReference(outcome, "zipUrl") <=> outcome.isLargeFile
    /\ outcome.status = "error" =>
          /\ "error" \in DOMAIN outcome /\ Len(outcome.error) > 0
          /\ \A part \in 1..Len(outcome.error) : outcome.error[part] # ""
          /\ ~HasReference(outcome, "cleanedUrl")
          /\ ~HasReference(outcome, "zipUrl")

C30_OutcomesAreWellFormed ==
    /\ \A i \in 1..Len(results) : IsWellFormedOutcome(results[i])
    /\ \A i \in 1..Len(response.body) : IsWellFormedOutcome(response.body[i])

\* C30 witness: a response with the two shapes of Error outcome, the one of
\* the loop's catch (an empty cleanedUrl) and the one of the remote route (no
\* cleanedUrl, flagged as a large file).
C30_Witness ==
    /\ pc = "done" /\ response.status = 200
    /\ \E i \in 1..Len(response.body) :
          /\ response.body[i].status = "error"
          /\ "cleanedUrl" \in DOMAIN response.body[i]
          /\ response.body[i].cleanedUrl = <<>>
    /\ \E j \in 1..Len(response.body) :
          /\ response.body[j].status = "error"
          /\ "cleanedUrl" \notin DOMAIN response.body[j]
          /\ response.body[j].isLargeFile

====
